---------------------------- MODULE Spec2Model ----------------------------
(***************************************************************************)
(* Model of edcert-compressor: CertificateCompressor (the versioned codec *)
(* that splices a format header over the LZMA stream header) and           *)
(* CertificateLoader (the folder / file persistence built on it).          *)
(*                                                                         *)
(* Bytes are naturals in 0..255, byte strings and texts are sequences of   *)
(* bytes.  Option<T> is a sequence of length 0 (None) or 1 (Some).         *)
(***************************************************************************)
EXTENDS Naturals, Sequences, FiniteSets

VARIABLES fs, last, before, onlySaves

vars == <<fs, last, before, onlySaves>>

(***************************************************************************)
(* Bounds of the model.                                                    *)
(***************************************************************************)
\* number of distinct public keys a certificate is drawn from
MaxPub == 2
\* longest private key (in bytes) a certificate is drawn with
MaxKeyLen == 1

(***************************************************************************)
(* Small helpers on sequences.                                             *)
(***************************************************************************)
Min(a, b) == IF a < b THEN a ELSE b

Prefix(s, n) == SubSeq(s, 1, Min(n, Len(s)))

Drop(s, n) == SubSeq(s, n + 1, Len(s))

RECURSIVE SeqsUpTo(_, _)
SeqsUpTo(S, n) ==
    IF n = 0 THEN {<<>>}
    ELSE LET shorter == SeqsUpTo(S, n - 1)
         IN  shorter \cup {Append(s, x) : s \in shorter, x \in S}

(***************************************************************************)
(* The certificate collaborator (edcert::certificate::Certificate), seen   *)
(* through the capabilities the crate uses.                                *)
(***************************************************************************)
PubKeys == {64 + i : i \in 1..MaxPub}

KeyBytes == {48}

Certs ==
    [public_key : PubKeys,
     private_key : {<<>>} \cup {<<k>> : k \in SeqsUpTo(KeyBytes, MaxKeyLen)}]

has_private_key(cert) == cert.private_key # <<>>

set_private_key(cert, bytes) == [cert EXCEPT !.private_key = <<bytes>>]

(***************************************************************************)
(* Results.  kind is "Ok", "Err" (a returned Err(&'static str)) or "Panic" *)
(* (the call unwinds instead of returning).  stage is the last step of     *)
(* decode that was attempted.                                              *)
(***************************************************************************)
Ok(stage, certOut, bytesOut) ==
    [kind |-> "Ok", msg |-> "", stage |-> stage, cert |-> certOut, bytes |-> bytesOut]

Err(stage, msg) ==
    [kind |-> "Err", msg |-> msg, stage |-> stage, cert |-> <<>>, bytes |-> <<>>]

Panic(stage, msg) ==
    [kind |-> "Panic", msg |-> msg, stage |-> stage, cert |-> <<>>, bytes |-> <<>>]

(***************************************************************************)
(* rustc_serialize::json over a Certificate.  The text is the public key,  *)
(* then `n` (null) or the private key between double quotes.               *)
(***************************************************************************)
json_encode(cert) ==
    <<cert.public_key>> \o
        (IF cert.private_key = <<>> THEN <<110>>
         ELSE <<34>> \o cert.private_key[1] \o <<34>>)

json_decode(text) ==
    IF Len(text) < 2 \/ text[1] >= 128 THEN <<>>
    ELSE IF Len(text) = 2 /\ text[2] = 110
         THEN <<[public_key |-> text[1], private_key |-> <<>>]>>
    ELSE IF Len(text) >= 3 /\ text[2] = 34 /\ text[Len(text)] = 34
            /\ \A i \in 3..(Len(text) - 1) : text[i] # 34
         THEN <<[public_key |-> text[1],
                 private_key |-> <<SubSeq(text, 3, Len(text) - 1)>>]>>
    ELSE <<>>

\* String::from_utf8: the model's alphabet holds single-byte code points
\* (below 128) and bytes that never occur in well-formed UTF-8 (248..255).
from_utf8(bytes) ==
    IF \A i \in 1..Len(bytes) : bytes[i] < 128 THEN <<bytes>> ELSE <<>>

(***************************************************************************)
(* The lzma crate: a stream is the 6 magic bytes, the transformed payload  *)
(* and a check byte.                                                       *)
(***************************************************************************)
LzmaMagic == <<253, 55, 122, 88, 90, 0>>

RECURSIVE SumBytes(_)
SumBytes(s) == IF s = <<>> THEN 0 ELSE (s[1] + SumBytes(Tail(s))) % 256

lzma_compress(data, level) ==
    LzmaMagic \o [i \in 1..Len(data) |-> (data[i] + level) % 256]
        \o <<SumBytes(data)>>

lzma_decompress(stream) ==
    IF Len(stream) < 7 \/ SubSeq(stream, 1, 6) # LzmaMagic THEN <<>>
    ELSE LET body == SubSeq(stream, 7, Len(stream) - 1)
             data == [i \in 1..Len(body) |-> (body[i] + 250) % 256]
         IN  IF stream[Len(stream)] = SumBytes(data) THEN <<data>> ELSE <<>>

\* edcert::copy_bytes(dest, src, dest_offset, src_offset, len)
copy_bytes(dest, src, doff, soff, len) ==
    [i \in 1..Len(dest) |->
        IF i > doff /\ i <= doff + len THEN src[i - doff + soff] ELSE dest[i]]


(***************************************************************************)
(* Version strings: format!("{}.{}.{}", u8, u8, u8) and the semver crate.  *)
(***************************************************************************)
RECURSIVE Digits(_)
Digits(n) == IF n < 10 THEN <<48 + n>> ELSE Digits(n \div 10) \o <<48 + (n % 10)>>

FormatVersion(major, minor, patch) ==
    Digits(major) \o <<46>> \o Digits(minor) \o <<46>> \o Digits(patch)

RECURSIVE SplitAt(_, _)
SplitAt(s, sep) ==
    IF \A i \in 1..Len(s) : s[i] # sep THEN <<s>>
    ELSE LET i == CHOOSE j \in 1..Len(s) :
                      s[j] = sep /\ \A k \in 1..(j - 1) : s[k] # sep
         IN  <<SubSeq(s, 1, i - 1)>> \o SplitAt(Drop(s, i), sep)

IsNumeric(s) ==
    /\ s # <<>>
    /\ \A i \in 1..Len(s) : s[i] >= 48 /\ s[i] <= 57
    /\ (Len(s) > 1 => s[1] # 48)

RECURSIVE ParseNum(_)
ParseNum(s) ==
    IF s = <<>> THEN 0
    ELSE 10 * ParseNum(SubSeq(s, 1, Len(s) - 1)) + (s[Len(s)] - 48)

\* semver::Version::parse, for strings without pre-release or build parts
VersionParse(text) ==
    LET parts == SplitAt(text, 46)
    IN  IF Len(parts) = 3 /\ \A i \in 1..3 : IsNumeric(parts[i])
        THEN <<[major |-> ParseNum(parts[1]), minor |-> ParseNum(parts[2]),
                patch |-> ParseNum(parts[3])]>>
        ELSE <<>>

\* Seeded fault: the requirement anchored at the version encode writes
\* ("^1.1.0") instead of the oldest readable one.
VReqCurrent == [major |-> 1, minor |-> 1, patch |-> 0]

\* VersionReq::parse("^1.0.0"): the caret predicate anchored at 1.0.0
VReq == [major |-> 1, minor |-> 0, patch |-> 0]

\* Seeded fault: the requirement read as ">=1.0.0" (no upper bound on major).
VersionReqMatchesAnyMajor(req, ver) ==
    \/ ver.major > req.major
    \/ /\ ver.major = req.major
       /\ \/ ver.minor > req.minor
          \/ ver.minor = req.minor /\ ver.patch >= req.patch

\* semver::VersionReq::matches for a caret requirement with major > 0
VersionReqMatches(req, ver) ==
    /\ ver.major = req.major
    /\ \/ ver.minor > req.minor
       \/ ver.minor = req.minor /\ ver.patch >= req.patch

(***************************************************************************)
(* CertificateCompressor                                                   *)
(***************************************************************************)
CERTIFICATE_COMPRESSOR_FORMAT_VERSION == <<1, 1, 0>>

\* b"edc", the marker encode writes
FormatMagic == <<101, 100, 99>>

\* b"ert", the bytes get_version_from_bytes reads as version 1.0.0
LegacyTag == <<101, 114, 116>>

\* Seeded fault: the legacy tag is not recognised.
get_version_from_bytes_at_start(bytes) ==
    FormatVersion(bytes[1], bytes[2], bytes[3])

get_version_from_bytes(bytes) ==
    IF bytes = LegacyTag THEN <<49, 46, 48, 46, 48>>
    ELSE FormatVersion(bytes[1], bytes[2], bytes[3])

get_bytes_from_version == CERTIFICATE_COMPRESSOR_FORMAT_VERSION

\* Seeded fault: only three of the six LZMA magic bytes are restored.
decode_versioned_short_magic(bytes, version) ==
    IF VersionReqMatches(VReq, version)
    THEN LET spliced == copy_bytes(SubSeq(bytes, 1, 6), LzmaMagic, 0, 0, 3)
                            \o Drop(bytes, 6)
             o1 == lzma_decompress(spliced)
         IN  IF o1 = <<>> THEN Err("decompress", "Failed to decompress certificate")
             ELSE LET o2 == from_utf8(o1[1])
                  IN  IF o2 = <<>>
                      THEN Err("utf8", "Failed to read UTF8 from decompressed vector")
                      ELSE LET o3 == json_decode(o2[1])
                           IN  IF o3 = <<>> THEN Err("json", "Failed to decode JSON")
                               ELSE Ok("json", o3, <<>>)
    ELSE Err("version", "Incompatible file format. File corrupted or old Edcert?")

\* The body of decode once the version is parsed (the if / else of decode).
decode_versioned(bytes, version) ==
    IF VersionReqMatches(VReq, version)
    THEN LET spliced == copy_bytes(SubSeq(bytes, 1, 6), LzmaMagic, 0, 0, 6)
                            \o Drop(bytes, 6)
             o1 == lzma_decompress(spliced)
         IN  IF o1 = <<>> THEN Err("decompress", "Failed to decompress certificate")
             ELSE LET o2 == from_utf8(o1[1])
                  IN  IF o2 = <<>>
                      THEN Err("utf8", "Failed to read UTF8 from decompressed vector")
                      ELSE LET o3 == json_decode(o2[1])
                           IN  IF o3 = <<>> THEN Err("json", "Failed to decode JSON")
                               ELSE Ok("json", o3, <<>>)
    ELSE Err("version", "Incompatible file format. File corrupted or old Edcert?")

decode(compressed) ==
    IF Len(compressed) < 6
    THEN Panic("slice", "range end index 6 out of range for slice")
    ELSE LET text == get_version_from_bytes(SubSeq(compressed, 4, 6))
             version == VersionParse(text)
         IN  IF version = <<>>
             THEN Panic("version", "Failed to parse file format version")
             ELSE decode_versioned(compressed, version[1])

\* Seeded fault: the version triple is copied into compressed[0..6] instead
\* of compressed[3..6], over the marker.
encode_version_at_start(cert) ==
    LET compressed == lzma_compress(json_encode(cert), 6)
        c1 == copy_bytes(SubSeq(compressed, 1, 6), FormatMagic, 0, 0, 3)
                  \o Drop(compressed, 6)
        c2 == copy_bytes(SubSeq(c1, 1, 6), get_bytes_from_version, 0, 0, 3)
                  \o Drop(c1, 6)
    IN  Ok("encode", <<>>, c2)

encode(cert) ==
    LET jsoncode == json_encode(cert)
        compressed == lzma_compress(jsoncode, 6)
        version == get_bytes_from_version
    IN  IF Len(compressed) < 6
        THEN Panic("slice", "range end index 6 out of range for slice")
        ELSE LET c1 == copy_bytes(SubSeq(compressed, 1, 6), FormatMagic, 0, 0, 3)
                           \o Drop(compressed, 6)
                 c2 == SubSeq(c1, 1, 3)
                           \o copy_bytes(SubSeq(c1, 4, 6), version, 0, 0, 3)
                           \o Drop(c1, 6)
             IN  Ok("encode", <<>>, c2)

(***************************************************************************)
(* The file system under one folder path.  folder is "absent", "dir" or    *)
(* "file" (the path names a regular file); files maps the two names the    *)
(* loader uses to None or Some(contents).                                  *)
(***************************************************************************)
KeyFile == "private.key"

CertFile == "certificate.edc"

FileNames == {KeyFile, CertFile}

NoFiles == [n \in FileNames |-> <<>>]

\* An I/O step fails when the injected fault names it.  A failing write has
\* already put a prefix of the data (cut bytes at most) into the created file.
SaveFaults == {"none", "mkdir", "create_key", "write_key", "create_cert", "write_cert"}

LoadFaults == {"none", "open_cert", "read_cert", "open_key", "read_key"}

CutPoints(fault) == IF fault = "write_cert" THEN {0, 3} ELSE {0}

\* std::fs::metadata(folder).is_err()
metadata_is_err(f) == f.folder = "absent"

\* File::create / File::open of <folder>/<name>
can_create(f) == f.folder = "dir"

can_open(f, name) == f.folder = "dir" /\ f.files[name] # <<>>

WithFile(f, name, contents) == [f EXCEPT !.files[name] = <<contents>>]

Done(f, ret) == [fs |-> f, ret |-> ret]

(***************************************************************************)
(* CertificateLoader                                                       *)
(***************************************************************************)
save_to_file(cert, f, fault, cut) ==
    IF ~can_create(f) \/ fault = "create_cert"
    THEN Done(f, Err("create_cert", "Failed to create certificate file"))
    ELSE LET compressed == encode(cert)
         IN  IF compressed.kind # "Ok" THEN Done(WithFile(f, CertFile, <<>>), compressed)
             ELSE IF fault = "write_cert"
             THEN Done(WithFile(f, CertFile, Prefix(compressed.bytes, cut)),
                       Err("write_cert", "Failed to write certificate to File."))
             ELSE Done(WithFile(f, CertFile, compressed.bytes), Ok("write_cert", <<>>, <<>>))

save_private_key(cert, f, fault, cut) ==
    IF cert.private_key = <<>>
    THEN Done(f, Err("private_key", "The certificate has no private key."))
    ELSE IF ~can_create(f) \/ fault = "create_key"
    THEN Done(f, Err("create_key", "Failed to create private key file."))
    ELSE IF fault = "write_key"
    THEN Done(WithFile(f, KeyFile, Prefix(cert.private_key[1], cut)),
              Err("write_key", "Failed to write private key file."))
    ELSE Done(WithFile(f, KeyFile, cert.private_key[1]), Ok("write_key", <<>>, <<>>))

\* Seeded fault: the has_private_key test is inverted.
save_to_folder_inverted(cert, f, fault, cut) ==
    IF metadata_is_err(f) /\ fault = "mkdir"
    THEN Done(f, Err("mkdir", "Failed to create folder"))
    ELSE LET f1 == IF metadata_is_err(f) THEN [folder |-> "dir", files |-> NoFiles] ELSE f
             r1 == IF ~has_private_key(cert) THEN save_private_key(cert, f1, fault, cut)
                   ELSE Done(f1, Ok("private_key", <<>>, <<>>))
         IN  IF r1.ret.kind # "Ok" THEN r1
             ELSE save_to_file(cert, r1.fs, fault, cut)

save_to_folder(cert, f, fault, cut) ==
    IF metadata_is_err(f) /\ fault = "mkdir"
    THEN Done(f, Err("mkdir", "Failed to create folder"))
    ELSE LET f1 == IF metadata_is_err(f) THEN [folder |-> "dir", files |-> NoFiles] ELSE f
             r1 == IF has_private_key(cert) THEN save_private_key(cert, f1, fault, cut)
                   ELSE Done(f1, Ok("private_key", <<>>, <<>>))
         IN  IF r1.ret.kind # "Ok" THEN r1
             ELSE save_to_file(cert, r1.fs, fault, cut)

load_from_file(f, fault) ==
    IF ~can_open(f, CertFile) \/ fault = "open_cert"
    THEN Err("open_cert", "Failed to open certificate file.")
    ELSE IF fault = "read_cert" THEN Err("read_cert", "Failed to read certificate")
    ELSE decode(f.files[CertFile][1])

load_private_key(cert, f, fault) ==
    IF ~can_open(f, KeyFile) \/ fault = "open_key"
    THEN Err("open_key", "Failed to open private kye file.")
    ELSE IF fault = "read_key" THEN Err("read_key", "Failed to read private key")
    ELSE Ok("read_key", <<set_private_key(cert, f.files[KeyFile][1])>>, <<>>)

load_from_folder(f, fault) ==
    LET r1 == load_from_file(f, fault)
    IN  IF r1.kind # "Ok" THEN r1
        ELSE load_private_key(r1.cert[1], f, fault)

(***************************************************************************)
(* Inputs of decode: blobs made by encode with the six header bytes        *)
(* replaced, cut short, or with one payload byte overwritten.              *)
(***************************************************************************)
Markers == {FormatMagic, LegacyTag, <<0, 0, 0>>}

VersionTriples ==
    {CERTIFICATE_COMPRESSOR_FORMAT_VERSION, <<1, 0, 0>>, LegacyTag, <<0, 1, 0>>,
     <<2, 0, 0>>, <<0, 0, 0>>, <<1, 255, 255>>, <<255, 255, 255>>, <<1, 0, 10>>,
     <<10, 0, 0>>, <<1, 20, 3>>}

Blobs == {encode(c).bytes : c \in Certs}

WithHeader(blob, marker, triple) == marker \o triple \o Drop(blob, 6)

Corrupted(blob, i, byte) == [blob EXCEPT ![i] = byte]

DecodeInputs ==
    {WithHeader(b, m, t) : b \in Blobs, m \in Markers, t \in VersionTriples}
    \cup {Prefix(b, n) : b \in Blobs, n \in 0..5}
    \cup UNION {{Corrupted(b, i, x) : i \in 7..Len(b), x \in {0, 255}} : b \in Blobs}

(***************************************************************************)
(* State: fs is the folder, last the most recent call with its result,     *)
(* before the call preceding it (kept for a fault-free save_to_folder that *)
(* returned Ok, None otherwise),                                           *)
(* onlySaves whether every call so far was a save_to_folder that returned  *)
(* Ok on a folder that was absent or empty at the start.                   *)
(***************************************************************************)
Call(op, cert, input, fault, ret) ==
    [op |-> op, cert |-> cert, input |-> input, fault |-> fault,
     pre |-> fs.folder, empty |-> (fs.files = NoFiles), ret |-> ret]

Summary(call) ==
    IF call.op = "save_to_folder" /\ call.fault = "none" /\ call.ret.kind = "Ok"
    THEN <<[cert |-> call.cert[1], pre |-> call.pre, empty |-> call.empty]>>
    ELSE <<>>

Init ==
    /\ fs \in {[folder |-> k, files |-> NoFiles] : k \in {"absent", "dir", "file"}}
    /\ last = [op |-> "init", cert |-> <<>>, input |-> <<>>, fault |-> "none",
               pre |-> fs.folder, empty |-> TRUE, ret |-> Ok("init", <<>>, <<>>)]
    /\ before = <<>>
    /\ onlySaves = (fs.folder # "file")

Encode(cert) ==
    /\ last' = Call("encode", <<cert>>, <<>>, "none", encode(cert))
    /\ before' = Summary(last)
    /\ onlySaves' = FALSE
    /\ UNCHANGED fs

Decode(bytes) ==
    /\ last' = Call("decode", <<>>, bytes, "none", decode(bytes))
    /\ before' = Summary(last)
    /\ onlySaves' = FALSE
    /\ UNCHANGED fs

SaveToFolder(cert, fault, cut) ==
    LET r == save_to_folder(cert, fs, fault, cut)
    IN  /\ fs' = r.fs
        /\ last' = Call("save_to_folder", <<cert>>, <<>>, fault, r.ret)
        /\ before' = Summary(last)
        /\ onlySaves' = (onlySaves /\ r.ret.kind = "Ok")

LoadFromFolder(fault) ==
    /\ last' = Call("load_from_folder", <<>>, <<>>, fault, load_from_folder(fs, fault))
    /\ before' = Summary(last)
    /\ onlySaves' = FALSE
    /\ UNCHANGED fs

SaveToFile(cert, fault, cut) ==
    LET r == save_to_file(cert, fs, fault, cut)
    IN  /\ fs' = r.fs
        /\ last' = Call("save_to_file", <<cert>>, <<>>, fault, r.ret)
        /\ before' = Summary(last)
        /\ onlySaves' = FALSE

SavePrivateKey(cert, fault, cut) ==
    LET r == save_private_key(cert, fs, fault, cut)
    IN  /\ fs' = r.fs
        /\ last' = Call("save_private_key", <<cert>>, <<>>, fault, r.ret)
        /\ before' = Summary(last)
        /\ onlySaves' = FALSE

LoadFromFile(fault) ==
    /\ last' = Call("load_from_file", <<>>, <<>>, fault, load_from_file(fs, fault))
    /\ before' = Summary(last)
    /\ onlySaves' = FALSE
    /\ UNCHANGED fs

LoadPrivateKey(cert, fault) ==
    /\ last' = Call("load_private_key", <<cert>>, <<>>, fault,
                    load_private_key(cert, fs, fault))
    /\ before' = Summary(last)
    /\ onlySaves' = FALSE
    /\ UNCHANGED fs

NextCodec ==
    \/ \E cert \in Certs : Encode(cert)
    \/ \E bytes \in DecodeInputs : Decode(bytes)

Next ==
    \/ \E cert \in Certs, fault \in SaveFaults :
           \E cut \in CutPoints(fault) : SaveToFolder(cert, fault, cut)
    \/ \E fault \in LoadFaults : LoadFromFolder(fault)
    \/ \E cert \in Certs, fault \in {"none", "create_cert", "write_cert"} :
           \E cut \in CutPoints(fault) : SaveToFile(cert, fault, cut)
    \/ \E cert \in Certs, fault \in {"none", "create_key", "write_key"} :
           \E cut \in CutPoints(fault) : SavePrivateKey(cert, fault, cut)
    \/ \E fault \in {"none", "open_cert", "read_cert"} : LoadFromFile(fault)
    \/ \E cert \in Certs, fault \in {"none", "open_key", "read_key"} :
           LoadPrivateKey(cert, fault)

Spec == Init /\ [][Next]_vars

SpecCodec == Init /\ [][NextCodec]_vars

(***************************************************************************)
(* Properties.                                                             *)
(***************************************************************************)
IncompatibleMsg == "Incompatible file format. File corrupted or old Edcert?"

PastVersionCheck(ret) == ret.stage \in {"decompress", "utf8", "json"}

\* bytes 6.. of the compressed serialization of cert
PayloadOf(cert) == Drop(lzma_compress(json_encode(cert), 6), 6)

\* C1: round trip.  Decoding the blob encode produced for a certificate c
\* (with or without a private key) returns Ok with a certificate equal to c.
C1_RoundTrip ==
    /\ last.op = "encode" =>
           /\ last.ret.kind = "Ok"
           /\ decode(last.ret.bytes).kind = "Ok"
           /\ decode(last.ret.bytes).cert = last.cert
    /\ \A c \in Certs :
           (last.op = "decode" /\ last.input = encode(c).bytes) =>
               (last.ret.kind = "Ok" /\ last.ret.cert = <<c>>)

C1_Witness ==
    /\ last.op = "decode"
    /\ last.ret.kind = "Ok"
    /\ \E c \in Certs : has_private_key(c) /\ last.input = encode(c).bytes
                        /\ last.ret.cert = <<c>>

\* The version decode works with: 1.0.0 when bytes 3..5 are "ert", else the
\* three bytes read as (major, minor, patch).
EffectiveVersion(bytes) ==
    IF SubSeq(bytes, 4, 6) = <<101, 114, 116>> THEN <<1, 0, 0>>
    ELSE SubSeq(bytes, 4, 6)

\* C2: version gate.  For an input of at least 6 bytes decode gets past the
\* version check iff the effective major is 1 and (minor, patch) >= (0, 0);
\* any other major is rejected with the incompatible-version error before
\* decompression or deserialization is attempted.
C2_VersionGate ==
    (last.op = "decode" /\ Len(last.input) >= 6) =>
        LET v == EffectiveVersion(last.input)
            compatible == v[1] = 1 /\ (v[2] > 0 \/ (v[2] = 0 /\ v[3] >= 0))
        IN  /\ PastVersionCheck(last.ret) <=> compatible
            /\ v[1] # 1 =>
                   /\ last.ret.kind = "Err"
                   /\ last.ret.msg = IncompatibleMsg
                   /\ last.ret.stage = "version"
                   /\ last.ret.cert = <<>>

C2_Witness ==
    /\ last.op = "decode"
    /\ Len(last.input) >= 6
    /\ SubSeq(last.input, 4, 6) = <<2, 0, 0>>
    /\ Drop(last.input, 6) \in {PayloadOf(c) : c \in Certs}
    /\ last.ret.kind = "Err"
    /\ last.ret.msg = IncompatibleMsg

\* C3: truncated input.  For an input of 0 to 5 bytes decode returns an error
\* to its caller (it does not panic) and does not attempt decompression.
C3_TruncatedRejected ==
    (last.op = "decode" /\ Len(last.input) < 6) =>
        (last.ret.kind = "Err" /\ ~PastVersionCheck(last.ret))

\* C4 as stated: a blob whose bytes 0..2 are the legacy marker and whose
\* bytes 6.. are the payload of a certificate c decodes to c, whatever
\* bytes 3..5 hold.
C4_LegacyMarkerAtStart ==
    \A c \in Certs :
        (/\ last.op = "decode"
         /\ Len(last.input) >= 6
         /\ SubSeq(last.input, 1, 3) = <<101, 114, 116>>
         /\ Drop(last.input, 6) = PayloadOf(c))
        => (last.ret.kind = "Ok" /\ last.ret.cert = <<c>>)

\* C4 amended: a blob whose bytes 3..5 are the legacy tag "ert" and whose
\* bytes 6.. are the payload of a certificate c is read as version 1.0.0,
\* passes the version check and decodes to c, whatever bytes 0..2 hold.
C4_LegacyTagAtThree ==
    \A c \in Certs :
        (/\ last.op = "decode"
         /\ Len(last.input) >= 6
         /\ SubSeq(last.input, 4, 6) = <<101, 114, 116>>
         /\ Drop(last.input, 6) = PayloadOf(c))
        => (/\ PastVersionCheck(last.ret)
            /\ last.ret.kind = "Ok"
            /\ last.ret.cert = <<c>>)

C4_Witness ==
    /\ last.op = "decode"
    /\ Len(last.input) >= 6
    /\ SubSeq(last.input, 1, 3) = <<0, 0, 0>>
    /\ SubSeq(last.input, 4, 6) = <<101, 114, 116>>
    /\ last.ret.kind = "Ok"
    /\ \E c \in Certs : Drop(last.input, 6) = PayloadOf(c) /\ last.ret.cert = <<c>>

\* C5: the blob encode(c) with bytes 3, 4, 5 replaced by 0x65, 0x72, 0x74 is
\* read as version 1.0.0 (not 101.114.116) and decodes to c.
C5_OldFormatSimulation ==
    \A c \in Certs :
        (/\ last.op = "decode"
         /\ last.input = [encode(c).bytes EXCEPT ![4] = 101, ![5] = 114, ![6] = 116])
        => (/\ VersionParse(get_version_from_bytes(SubSeq(last.input, 4, 6)))
                   = <<[major |-> 1, minor |-> 0, patch |-> 0]>>
            /\ last.ret.kind = "Ok"
            /\ last.ret.cert = <<c>>)

C5_Witness ==
    /\ last.op = "decode"
    /\ last.ret.kind = "Ok"
    /\ \E c \in Certs :
           /\ last.input = [encode(c).bytes EXCEPT ![4] = 101, ![5] = 114, ![6] = 116]
           /\ SubSeq(last.input, 1, 3) = <<101, 100, 99>>
           /\ last.ret.cert = <<c>>

\* C6: header stamping.  encode(c) has at least 6 bytes, bytes 0..2 are
\* "edc", bytes 3..5 are (1, 1, 0) and bytes 6.. are bytes 6.. of
\* compress(toText(c)).
C6_HeaderStamp ==
    last.op = "encode" =>
        /\ last.ret.kind = "Ok"
        /\ Len(last.ret.bytes) >= 6
        /\ SubSeq(last.ret.bytes, 1, 3) = <<101, 100, 99>>
        /\ SubSeq(last.ret.bytes, 4, 6) = <<1, 1, 0>>
        /\ Drop(last.ret.bytes, 6) = PayloadOf(last.cert[1])
        /\ Len(last.ret.bytes) = Len(lzma_compress(json_encode(last.cert[1]), 6))

C6_Witness ==
    /\ last.op = "encode"
    /\ has_private_key(last.cert[1])
    /\ last.ret.kind = "Ok"
    /\ Len(last.ret.bytes) > 6

\* C7: folder save / load with a key.  A fault-free save_to_folder of a
\* certificate with a private key into an absent folder or an existing
\* directory returns Ok and leaves private.key holding exactly the key
\* bytes; the load_from_folder that follows returns an equal certificate.
C7_FolderRoundTripWithKey ==
    /\ (/\ last.op = "save_to_folder"
        /\ last.fault = "none"
        /\ last.pre \in {"absent", "dir"}
        /\ has_private_key(last.cert[1]))
       => (/\ last.ret.kind = "Ok"
           /\ fs.folder = "dir"
           /\ fs.files[KeyFile] = <<last.cert[1].private_key[1]>>)
    /\ (/\ last.op = "load_from_folder"
        /\ last.fault = "none"
        /\ before # <<>>
        /\ has_private_key(before[1].cert))
       => (last.ret.kind = "Ok" /\ last.ret.cert = <<before[1].cert>>)

C7_Witness ==
    /\ last.op = "load_from_folder"
    /\ last.fault = "none"
    /\ before # <<>>
    /\ has_private_key(before[1].cert)
    /\ before[1].cert.private_key[1] # <<>>
    /\ last.ret.kind = "Ok"
    /\ last.ret.cert = <<before[1].cert>>
    /\ fs.files[KeyFile] = before[1].cert.private_key

\* C8: folder save / load without a key.  A save_to_folder of a certificate
\* without a private key into an absent or empty folder does not create
\* private.key, and the load_from_folder that follows returns Ok with a
\* certificate that has no private key.
C8_FolderRoundTripWithoutKey ==
    /\ (/\ last.op = "save_to_folder"
        /\ last.empty
        /\ ~has_private_key(last.cert[1]))
       => fs.files[KeyFile] = <<>>
    /\ (/\ last.op = "load_from_folder"
        /\ last.fault = "none"
        /\ before # <<>>
        /\ before[1].empty
        /\ ~has_private_key(before[1].cert))
       => (/\ last.ret.kind = "Ok"
           /\ ~has_private_key(last.ret.cert[1]))

\* C9: layout over sequences of saves.  From an absent or empty folder,
\* after any sequence of successful save_to_folder calls certificate.edc is
\* present and private.key is present iff the most recent certificate
\* carried a private key.
C9_LayoutAfterSaves ==
    (onlySaves /\ last.op = "save_to_folder") =>
        /\ fs.files[CertFile] # <<>>
        /\ fs.files[KeyFile] # <<>> <=> has_private_key(last.cert[1])

\* C10: folder step.  After save_to_folder either the path is a directory,
\* or the call failed with the folder-creation error and neither file was
\* written.
C10_FolderStep ==
    last.op = "save_to_folder" =>
        \/ fs.folder = "dir"
        \/ /\ last.ret.kind = "Err"
           /\ last.ret.msg = "Failed to create folder"
           /\ fs.files = NoFiles

=============================================================================
